---- MODULE Spec2Model ----
(***************************************************************************)
(* Model of the px-plus web-enhancement pipeline: the fallback-chain        *)
(* orchestrator (WebEnhancementService / AsyncWebEnhancementService), the   *)
(* round-robin batch scheduler (BatchEnhancementService), the cache-aside   *)
(* layer (CachedEnhancementService / AsyncCachedEnhancementService) and the *)
(* in-memory TTL cache (MemoryCacheAdapter).                                *)
(***************************************************************************)
EXTENDS Integers, Sequences, FiniteSets, TLC

VARIABLES orch, sched, csvc, mem, fn

vars == <<orch, sched, csvc, mem, fn>>

(***************************************************************************)
(* Bounds                                                                   *)
(***************************************************************************)
\* Largest batch handed to one orchestration call in the orchestrator spec.
MaxBatchLen == 2

\* Longest term list handed to one scheduler call.
MaxTerms == 3

\* Largest batch_size of a scheduler call.
MaxBatchSize == 2

\* Largest concurrent_batches of a scheduler call.
MaxConcurrent == 3

\* Last instant of the clock of the cached service (the first is 1).
MaxClock == 3

\* Time to live of a cache entry, in clock ticks (the ttl constructor argument).
CacheTtl == 2

\* Last instant of the clock of the in-memory cache.
MaxMemClock == 3

\* Largest ttl, in clock ticks, given to MemoryCacheAdapter.set.
MaxMemTtl == 2

(***************************************************************************)
(* Result values (rfs.core.result Success / Failure)                        *)
(***************************************************************************)
Success(v) == [ok |-> TRUE, value |-> v]

Failure(e) == [ok |-> FALSE, error |-> e]

\* A call that did not return a Result: the exception e left it.
Raised(e) == [ok |-> FALSE, raised |-> TRUE, error |-> e]

HasRaised(r) == "raised" \in DOMAIN r

\* Placeholder held in a result slot before the call has returned.
NoResult == [ok |-> FALSE, error |-> <<>>]

(***************************************************************************)
(* Languages                                                                *)
(***************************************************************************)
SUPPORTED_LANGUAGES ==
    {"ko", "zh-CN", "zh-TW", "en", "ja", "fr", "ru", "it", "vi", "ar", "es"}

is_valid(lang) == lang \in SUPPORTED_LANGUAGES

(***************************************************************************)
(* EnhancedTerm                                                             *)
(*   original_term     term identity (a small integer or a character        *)
(*                     sequence stands for the text)                        *)
(*   translations      function language code -> translated text            *)
(*   web_sources       sequence of URLs                                     *)
(*   source            name of the adapter that produced the term           *)
(*   confidence_score  in tenths (5 stands for 0.5)                         *)
(*   search_timestamp  clock value (>= 1), NoTimestamp for None             *)
(***************************************************************************)
NoTimestamp == 0

EnhancedTerm(term, translations, web_sources, source, confidence, ts) ==
    [original_term |-> term, translations |-> translations,
     web_sources |-> web_sources, source |-> source,
     confidence_score |-> confidence, search_timestamp |-> ts]

has_translation(term, language_code) == language_code \in DOMAIN term.translations

\* Confidence threshold 0.5 of _validate_results, in tenths.
ConfThreshold == 5

\* Default confidence 0.8 an adapter assigns, in tenths.
DefaultConfidence == 8

(***************************************************************************)
(* Result validator: WebEnhancementService._validate_results.  The code has *)
(* no require_evidence parameter: web_sources is always required.           *)
(***************************************************************************)
ValidationError(why, term, langs) == [why |-> why, term |-> term, langs |-> langs]

missing_languages(term, target_languages) ==
    SelectSeq(target_languages, LAMBDA lang : ~has_translation(term, lang))

RECURSIVE validate_from(_, _, _)
validate_from(enhanced_terms, target_languages, i) ==
    IF i > Len(enhanced_terms) THEN Success("None")
    ELSE LET term == enhanced_terms[i]
             missing == missing_languages(term, target_languages)
         IN  IF missing # <<>>
             THEN Failure(ValidationError("missing", term.original_term, missing))
             ELSE IF term.confidence_score < ConfThreshold
             THEN Failure(ValidationError("lowconf", term.original_term, <<>>))
             ELSE IF term.web_sources = <<>>
             THEN Failure(ValidationError("nosrc", term.original_term, <<>>))
             ELSE validate_from(enhanced_terms, target_languages, i + 1)

validate_results(enhanced_terms, target_languages) ==
    IF enhanced_terms = <<>>
    THEN Failure(ValidationError("empty", 0, <<>>))
    ELSE validate_from(enhanced_terms, target_languages, 1)

(***************************************************************************)
(* Provider port.  A provider answers one call with a Failure or with a     *)
(* Success carrying a list of EnhancedTerm.  The shapes below are the       *)
(* outputs an adapter can hand to the orchestrator.                         *)
(***************************************************************************)
Tiers == 1..4

EvidenceTiers == {1, 2}

SourceName(tier) ==
    CASE tier = 1 -> "gpt4o_web"
      [] tier = 2 -> "gemini_web"
      [] tier = 3 -> "gemini_simple"
      [] tier = 4 -> "gpt4o_mini"

\* "raise": the adapter call ends with an exception (a timeout of the
\* client, an error outside the adapter's own try blocks).
\* "extra": the model's JSON holds one term more than the batch.  The
\* gpt4o_web adapter answers Failure then (its count check); the
\* plain-translation adapters build a term from every entry they are given.
ResponseKinds == {"error", "ok", "nosrc", "lowconf", "missing", "empty", "extra", "raise"}

AllTranslations(target_languages) ==
    [l \in {target_languages[i] : i \in DOMAIN target_languages} |-> "tr"]

\* Translations lacking the last requested language.
PartialTranslations(target_languages) ==
    [l \in {target_languages[i] : i \in 1..(Len(target_languages) - 1)} |-> "tr"]

\* Web-search adapters build terms with EnhancedTerm.create (timestamp = now);
\* plain-translation adapters use EnhancedTerm.from_dict (timestamp None).
TermTimestamp(tier, now) == IF tier \in EvidenceTiers THEN now ELSE NoTimestamp

Respond(kind, tier, term_infos, target_languages, now) ==
    LET n == Len(term_infos)
        mk(i) ==
            EnhancedTerm(
                term_infos[i],
                IF kind = "missing" /\ i = n
                    THEN PartialTranslations(target_languages)
                    ELSE AllTranslations(target_languages),
                IF kind = "nosrc" THEN <<>> ELSE <<"url">>,
                SourceName(tier),
                IF kind = "lowconf" /\ i = 1 THEN ConfThreshold - 1 ELSE DefaultConfidence,
                TermTimestamp(tier, now))
    IN  CASE kind = "error" -> Failure("adapter")
          [] kind = "raise" -> Raised("timeout")
          [] kind = "empty" -> Success(<<>>)
          [] kind = "extra" ->
                IF tier \in EvidenceTiers THEN Failure("count")
                ELSE Success([i \in 1..(n + 1) |-> IF i <= n THEN mk(i) ELSE mk(n)])
          [] OTHER -> Success([i \in 1..n |-> mk(i)])

(***************************************************************************)
(* Fallback orchestrator: WebEnhancementService (svc = "sync") and          *)
(* AsyncWebEnhancementService (svc = "async").                              *)
(*   cfg.fallback / cfg.simple / cfg.final: the optional adapters are set.  *)
(*   calls:  the provider invocations made so far, <<[tier, resp]>>.        *)
(*   validated: tiers whose output was passed to _validate_results.         *)
(*   errors: the errors list of _try_fallback.                              *)
(***************************************************************************)
Reason(tier, why, detail) == [tier |-> tier, why |-> why, detail |-> detail]

NoDetail == ValidationError("", 0, <<>>)

NewOrch(svc, cfg, term_infos, target_languages) ==
    [svc |-> svc, cfg |-> cfg, term_infos |-> term_infos,
     target_languages |-> target_languages,
     pc |-> "primary", calls |-> <<>>, validated |-> <<>>,
     errors |-> <<>>, result |-> NoResult]

Called(o, tier, resp) == Append(o.calls, [tier |-> tier, resp |-> resp])

\* return <value>
Return(o, result) == [o EXCEPT !.pc = "done", !.result = result]

\* an exception leaves the call
Raise(o) == [o EXCEPT !.pc = "raised"]

\* A web-search tier answered: validate, accept or record the reason.
\* (enhance_terms lines 129-149, _try_fallback lines 181-195)
\* The adapter call is in no try block: its exception leaves the call.
WebTierOutcome(o, tier, resp, next_pc) ==
    LET o1 == [o EXCEPT !.calls = Called(o, tier, resp)]
    IN  IF HasRaised(resp)
        THEN Raise(o1)
        ELSE IF resp.ok
        THEN LET v  == validate_results(resp.value, o.target_languages)
                 o2 == [o1 EXCEPT !.validated = Append(@, tier)]
             IN  IF v.ok
                 THEN Return(o2, resp)
                 ELSE [o2 EXCEPT !.pc = next_pc,
                                 !.errors = Append(@, Reason(tier, "validation", v.error))]
        ELSE [o1 EXCEPT !.pc = next_pc,
                        !.errors = Append(@, Reason(tier, "adapter", NoDetail))]

\* A plain-translation tier answered: accepted as is when it is a Success.
\* (_try_fallback lines 203-212 and 220-229)
PlainTierOutcome(o, tier, resp, next_pc) ==
    LET o1 == [o EXCEPT !.calls = Called(o, tier, resp)]
    IN  IF HasRaised(resp)
        THEN Raise(o1)
        ELSE IF resp.ok
        THEN Return(o1, resp)
        ELSE [o1 EXCEPT !.pc = next_pc,
                        !.errors = Append(@, Reason(tier, "adapter", NoDetail))]

\* final_error = "모든 폴백 실패. " + " | ".join(errors)
Exhausted(o) == Return(o, Failure(o.errors))

\* enhance_terms: input checks, then the primary adapter.
PrimaryStep(o, resp) ==
    IF o.term_infos = <<>>
    THEN Return(o, Failure(<<Reason(0, "empty_input", NoDetail)>>))
    ELSE IF \E i \in DOMAIN o.target_languages : ~is_valid(o.target_languages[i])
    THEN Return(o, Failure(<<Reason(0, "invalid_language", NoDetail)>>))
    ELSE WebTierOutcome(o, 1, resp, "fallback1")

\* _try_fallback, Fallback 1.  The async service returns at once when the
\* fallback adapter is None; the sync service calls the attribute of None.
Fallback1Step(o, resp) ==
    IF ~o.cfg.fallback
    THEN IF o.svc = "async"
         THEN Return(o, Failure(Append(o.errors, Reason(0, "all_disabled", NoDetail))))
         ELSE Raise(o)
    ELSE WebTierOutcome(o, 2, resp, "fallback2")

\* _try_fallback, Fallback 2 (skipped when the adapter is not set).
Fallback2Step(o, resp) ==
    IF o.cfg.simple
    THEN PlainTierOutcome(o, 3, resp, "fallback3")
    ELSE [o EXCEPT !.pc = "fallback3"]

\* _try_fallback, Fallback 3 and the aggregated failure after it.
Fallback3Step(o, resp) ==
    IF o.cfg.final
    THEN LET o1 == PlainTierOutcome(o, 4, resp, "exhausted")
         IN  IF o1.pc = "exhausted" THEN Exhausted(o1) ELSE o1
    ELSE Exhausted(o)

OrchStep(o, resp) ==
    CASE o.pc = "primary"   -> PrimaryStep(o, resp)
      [] o.pc = "fallback1" -> Fallback1Step(o, resp)
      [] o.pc = "fallback2" -> Fallback2Step(o, resp)
      [] o.pc = "fallback3" -> Fallback3Step(o, resp)
      [] OTHER -> o

\* The tier a step at this pc would call.
TierAt(pc) ==
    CASE pc = "primary" -> 1
      [] pc = "fallback1" -> 2
      [] pc = "fallback2" -> 3
      [] pc = "fallback3" -> 4
      [] OTHER -> 0

(***************************************************************************)
(* Specification of one orchestration call                                  *)
(***************************************************************************)
Configs == [fallback : BOOLEAN, simple : BOOLEAN, final : BOOLEAN]

Services == {"sync", "async"}

\* Provider answers and configurations drawn in the scheduler specification.
SchedKinds == {"error", "ok", "nosrc", "empty"}

SchedConfigs == Configs

OrchLanguages == {<<"ko", "en">>, <<"en">>, <<"en", "xx">>}

OrchBatches == {<<>>} \cup {[i \in 1..n |-> i] : n \in 1..MaxBatchLen}

IdleOrch == NewOrch("sync", [fallback |-> FALSE, simple |-> FALSE, final |-> FALSE], <<>>, <<>>)

IdleSched == [pc |-> "off"]

IdleCsvc == [pc |-> "off"]

IdleMem == [pc |-> "off"]

IdleFn == [pc |-> "off"]

OrchInit ==
    /\ \E svc \in Services, cfg \in Configs, b \in OrchBatches, l \in OrchLanguages :
        orch = NewOrch(svc, cfg, b, l)
    /\ sched = IdleSched
    /\ csvc = IdleCsvc
    /\ mem = IdleMem
    /\ fn = IdleFn

TryPrimary ==
    /\ orch.pc = "primary"
    /\ \E kind \in ResponseKinds :
        orch' = PrimaryStep(orch, Respond(kind, 1, orch.term_infos, orch.target_languages, 1))
    /\ UNCHANGED <<sched, csvc, mem, fn>>

TryFallback1 ==
    /\ orch.pc = "fallback1"
    /\ \E kind \in ResponseKinds :
        orch' = Fallback1Step(orch, Respond(kind, 2, orch.term_infos, orch.target_languages, 1))
    /\ UNCHANGED <<sched, csvc, mem, fn>>

TryFallback2 ==
    /\ orch.pc = "fallback2"
    /\ \E kind \in ResponseKinds :
        orch' = Fallback2Step(orch, Respond(kind, 3, orch.term_infos, orch.target_languages, 1))
    /\ UNCHANGED <<sched, csvc, mem, fn>>

TryFallback3 ==
    /\ orch.pc = "fallback3"
    /\ \E kind \in ResponseKinds :
        orch' = Fallback3Step(orch, Respond(kind, 4, orch.term_infos, orch.target_languages, 1))
    /\ UNCHANGED <<sched, csvc, mem, fn>>

OrchNext == TryPrimary \/ TryFallback1 \/ TryFallback2 \/ TryFallback3

SpecOrch == OrchInit /\ [][OrchNext]_vars

(***************************************************************************)
(* Specification of one _validate_results call.  require_evidence is what   *)
(* the caller wants checked; _validate_results has no such parameter.       *)
(***************************************************************************)
\* Longest term list handed to one validator call.
MaxValTerms == 2

ValLanguages == <<"ko", "en", "fr">>

\* The translations a validated term can have: all requested languages, all
\* but "fr", or "ko" alone.
ValTranslations == { [l \in ls |-> "tr"] : ls \in {{"ko", "en", "fr"}, {"ko", "en"}, {"ko"}} }

\* Confidence scores 0.4, 0.5 and 0.6, in tenths.
ValConfidences == {ConfThreshold - 1, ConfThreshold, ConfThreshold + 1}

ValTermShapes ==
    [translations : ValTranslations, web_sources : {<<>>, <<"url">>},
     confidence_score : ValConfidences]

\* Term lists: term i has identity i.
ValInputs ==
    UNION { { [i \in 1..n |->
                 EnhancedTerm(i, shapes[i].translations, shapes[i].web_sources,
                              SourceName(1), shapes[i].confidence_score, 1)]
              : shapes \in [1..n -> ValTermShapes] }
            : n \in 0..MaxValTerms }

ValidateInit ==
    /\ orch = IdleOrch
    /\ sched = IdleSched
    /\ csvc = IdleCsvc
    /\ mem = IdleMem
    /\ \E enhanced_terms \in ValInputs, require_evidence \in BOOLEAN :
        fn = [pc |-> "validate", enhanced_terms |-> enhanced_terms,
              target_languages |-> ValLanguages,
              require_evidence |-> require_evidence, result |-> NoResult]

ValidateResults ==
    /\ fn.pc = "validate"
    /\ fn' = [fn EXCEPT !.pc = "validated",
                        !.result = validate_results(fn.enhanced_terms, fn.target_languages)]
    /\ UNCHANGED <<orch, sched, csvc, mem>>

ValidateNext == ValidateResults

SpecValidate == ValidateInit /\ [][ValidateNext]_vars

(***************************************************************************)
(* Round-robin batch scheduler: BatchEnhancementService                     *)
(***************************************************************************)
Min(a, b) == IF a < b THEN a ELSE b

Range(xs) == {xs[i] : i \in DOMAIN xs}

\* range(0, n, step) as the sequence of its values
Range0(n, step) == [k \in 1..((n + step - 1) \div step) |-> (k - 1) * step]

\* xs[i : j] of Python (0-based, end exclusive, clipped to the list)
Slice(xs, i, j) == SubSeq(xs, i + 1, Min(j, Len(xs)))

\* _create_batches with a batch one term too long: term_infos[i:i + batch_size + 1]
create_batches_overlapping(term_infos, batch_size) ==
    LET starts == Range0(Len(term_infos), batch_size)
    IN  [k \in DOMAIN starts |-> Slice(term_infos, starts[k], starts[k] + batch_size + 1)]

\* _create_batches
create_batches(term_infos, batch_size) ==
    LET starts == Range0(Len(term_infos), batch_size)
    IN  [k \in DOMAIN starts |-> Slice(term_infos, starts[k], starts[k] + batch_size)]

\* math.ceil(a / b) for a >= 0, b >= 1
ceil_div(a, b) == (a + b - 1) \div b

calculate_batch_count(total_terms, batch_size) == ceil_div(total_terms, batch_size)

calculate_round_count(total_batches, concurrent_batches) ==
    ceil_div(total_batches, concurrent_batches)

\* _create_rounds with the rounds in reverse order
create_rounds_reversed(batches, concurrent_batches) ==
    LET starts == Range0(Len(batches), concurrent_batches)
        n == Len(starts)
    IN  [k \in DOMAIN starts |->
            Slice(batches, starts[n + 1 - k], starts[n + 1 - k] + concurrent_batches)]

\* _create_rounds with a round one batch too long: batches[i:i + concurrent_batches + 1]
create_rounds_too_long(batches, concurrent_batches) ==
    LET starts == Range0(Len(batches), concurrent_batches)
    IN  [k \in DOMAIN starts |-> Slice(batches, starts[k], starts[k] + concurrent_batches + 1)]

\* _create_rounds
create_rounds(batches, concurrent_batches) ==
    LET starts == Range0(Len(batches), concurrent_batches)
    IN  [k \in DOMAIN starts |-> Slice(batches, starts[k], starts[k] + concurrent_batches)]

\* The final states one orchestration call can end in, over every answer
\* the providers can give.
RECURSIVE Outcomes(_, _, _)
Outcomes(o, now, kinds) ==
    IF o.pc \in {"done", "raised"}
    THEN {o}
    ELSE UNION { Outcomes(OrchStep(o, Respond(kind, TierAt(o.pc), o.term_infos,
                                              o.target_languages, now)), now, kinds)
                 : kind \in kinds }

\* The tier whose output an orchestration call returned, 0 when none.
AcceptedTier(o) ==
    IF o.pc = "done" /\ o.result.ok THEN o.calls[Len(o.calls)].tier ELSE 0

\* _process_batch after the executor returned the orchestration result o:
\* (enhanced_terms, fallback_count), or the exception passed on.
\* accepted and tried record how the chain ended for the batch.
process_batch(o) ==
    IF o.pc = "raised"
    THEN [state |-> "raised", terms |-> <<>>, fallback |-> 0,
          accepted |-> 0, tried |-> Len(o.calls)]
    ELSE IF o.result.ok
    THEN LET enhanced_terms == o.result.value
             primary_source == SourceName(1)
             fallback_used  == \E i \in DOMAIN enhanced_terms :
                                  enhanced_terms[i].source # primary_source
         IN  [state |-> "done", terms |-> enhanced_terms,
              fallback |-> IF fallback_used THEN 1 ELSE 0,
              accepted |-> AcceptedTier(o), tried |-> Len(o.calls)]
    ELSE [state |-> "done", terms |-> <<>>, fallback |-> 0,
          accepted |-> 0, tried |-> Len(o.calls)]

RunningTask ==
    [state |-> "running", terms |-> <<>>, fallback |-> 0, accepted |-> 0, tried |-> 0]

\* results gathered in the order the tasks completed
gather_completion_order(tasks, completion) ==
    [k \in DOMAIN completion |-> tasks[completion[k]]]

\* results = await asyncio.gather(*tasks): the results in task order
gather(tasks, completion) == [i \in DOMAIN tasks |-> tasks[i]]

RECURSIVE Concat(_)
Concat(seqs) == IF seqs = <<>> THEN <<>> ELSE Head(seqs) \o Concat(Tail(seqs))

RECURSIVE SumSeq(_)
SumSeq(xs) == IF xs = <<>> THEN 0 ELSE Head(xs) + SumSeq(Tail(xs))

\* _process_round: one task per batch of the round, all started together
process_round(round_batches) == [i \in DOMAIN round_batches |-> RunningTask]

\* Number of batches in the rounds before round r.
BatchesBefore(rounds, r) == SumSeq([k \in 1..(r - 1) |-> Len(rounds[k])])

\* Term lists of a scheduler call: term i is the term at input position i.
SchedInputs == {[i \in 1..n |-> i] : n \in 0..MaxTerms}

SchedLanguages == <<"ko", "en">>

SchedInit ==
    /\ orch = IdleOrch
    /\ csvc = IdleCsvc
    /\ mem = IdleMem
    /\ fn = IdleFn
    /\ \E cfg \in SchedConfigs :
        sched = [pc |-> "idle", svc |-> "sync", cfg |-> cfg]

\* enhance_terms_batch is called: batches and rounds are built and the first
\* round is started (or the call returns at once when there is no round).
EnhanceTermsBatch ==
    /\ sched.pc = "idle"
    /\ \E term_infos \in SchedInputs, batch_size \in 1..MaxBatchSize,
          concurrent_batches \in 1..MaxConcurrent :
        /\ LET batches == create_batches(term_infos, batch_size)
               rounds  == create_rounds(batches, concurrent_batches)
           IN  sched' = [svc |-> sched.svc, cfg |-> sched.cfg,
                         term_infos |-> term_infos,
                         target_languages |-> SchedLanguages,
                         batch_size |-> batch_size,
                         concurrent_batches |-> concurrent_batches,
                         batches |-> batches, rounds |-> rounds,
                         round_idx |-> 1,
                         tasks |-> IF rounds = <<>> THEN <<>> ELSE process_round(rounds[1]),
                         completion |-> <<>>,
                         started |-> IF rounds = <<>> THEN {} ELSE 1..Len(rounds[1]),
                         finished |-> <<>>,
                         enhanced_terms |-> <<>>, fallback_count |-> 0,
                         fell_back |-> 0,
                         pc |-> IF rounds = <<>> THEN "done" ELSE "round"]
    /\ UNCHANGED <<orch, csvc, mem, fn>>

\* One batch of the running round comes back from the executor.  An
\* exception in it leaves gather and enhance_terms_batch at once; the other
\* tasks of the round keep running.
FinishBatch ==
    /\ sched.pc \in {"round", "raised"}
    /\ \E i \in DOMAIN sched.tasks :
        /\ sched.tasks[i].state = "running"
        /\ \E o \in Outcomes(NewOrch(sched.svc, sched.cfg,
                                       sched.rounds[sched.round_idx][i],
                                       sched.target_languages), 1, SchedKinds) :
            LET t == process_batch(o)
            IN  sched' = [sched EXCEPT
                            !.tasks[i] = t,
                            !.completion = Append(@, i),
                            !.finished = Append(@, BatchesBefore(sched.rounds, sched.round_idx) + i),
                            !.pc = IF t.state = "raised" THEN "raised" ELSE @]
    /\ UNCHANGED <<orch, csvc, mem, fn>>

\* gather returns when every task of the round is done: the results are
\* collected in task order, then the next round is started or the call
\* returns.  fell_back counts the batches accepted from a tier after the
\* first (history, not read by the scheduler).
GatherReturns ==
    /\ sched.pc = "round"
    /\ \A i \in DOMAIN sched.tasks : sched.tasks[i].state = "done"
    /\ LET round_results == gather(sched.tasks, sched.completion)
           collected == Concat([i \in DOMAIN round_results |-> round_results[i].terms])
           fallbacks == SumSeq([i \in DOMAIN round_results |-> round_results[i].fallback])
           next == sched.round_idx + 1
           more == next <= Len(sched.rounds)
       IN  sched' = [sched EXCEPT
                        !.enhanced_terms = @ \o collected,
                        !.fallback_count = @ + fallbacks,
                        !.fell_back = @ + Cardinality({i \in DOMAIN sched.tasks :
                                                          sched.tasks[i].accepted > 1}),
                        !.round_idx = next,
                        !.tasks = IF more THEN process_round(sched.rounds[next]) ELSE <<>>,
                        !.completion = <<>>,
                        !.started = IF more
                                    THEN @ \cup {BatchesBefore(sched.rounds, next) + k
                                                   : k \in 1..Len(sched.rounds[next])}
                                    ELSE @,
                        !.pc = IF more THEN "round" ELSE "done"]
    /\ UNCHANGED <<orch, csvc, mem, fn>>

SchedNext == EnhanceTermsBatch \/ FinishBatch \/ GatherReturns

SpecBatch == SchedInit /\ [][SchedNext]_vars

(***************************************************************************)
(* Specification of the splitter: _create_batches, then _create_rounds on   *)
(* its output, and the two count helpers.                                   *)
(***************************************************************************)
\* Longest term list, largest batch_size and largest concurrent_batches
\* given to the splitter.
MaxSplitTerms == 12

MaxSplitBatch == 5

MaxSplitConcurrent == 3

SplitInit ==
    /\ orch = IdleOrch
    /\ sched = IdleSched
    /\ csvc = IdleCsvc
    /\ mem = IdleMem
    /\ \E n \in 0..MaxSplitTerms, batch_size \in 1..MaxSplitBatch,
          concurrent_batches \in 1..MaxSplitConcurrent :
        fn = [pc |-> "split", term_infos |-> [i \in 1..n |-> i],
              batch_size |-> batch_size, concurrent_batches |-> concurrent_batches,
              batches |-> <<>>, batch_count |-> 0, rounds |-> <<>>, round_count |-> 0]

CreateBatches ==
    /\ fn.pc = "split"
    /\ fn' = [fn EXCEPT !.pc = "batched",
                        !.batches = create_batches(fn.term_infos, fn.batch_size),
                        !.batch_count = calculate_batch_count(Len(fn.term_infos), fn.batch_size)]
    /\ UNCHANGED <<orch, sched, csvc, mem>>

CreateRounds ==
    /\ fn.pc = "batched"
    /\ fn' = [fn EXCEPT !.pc = "rounded",
                        !.rounds = create_rounds(fn.batches, fn.concurrent_batches),
                        !.round_count = calculate_round_count(Len(fn.batches),
                                                              fn.concurrent_batches)]
    /\ UNCHANGED <<orch, sched, csvc, mem>>

SplitNext == CreateBatches \/ CreateRounds

SpecSplit == SplitInit /\ [][SplitNext]_vars

(***************************************************************************)
(* The scheduler call as a whole: every value enhance_terms_batch can       *)
(* return for a term list, over every outcome of its batches.               *)
(***************************************************************************)
\* The values _process_batch can produce for one batch.
BatchReturns(svc, cfg, batch, target_languages, now, kinds) ==
    { process_batch(o) : o \in Outcomes(NewOrch(svc, cfg, batch, target_languages), now, kinds) }

\* One finished task per batch of a round, in task order.
RECURSIVE RoundTasks(_, _, _, _, _, _)
RoundTasks(svc, cfg, round_batches, target_languages, now, kinds) ==
    IF round_batches = <<>>
    THEN {<<>>}
    ELSE { <<t>> \o rest :
             t \in BatchReturns(svc, cfg, Head(round_batches), target_languages, now, kinds),
             rest \in RoundTasks(svc, cfg, Tail(round_batches), target_languages, now, kinds) }

IdentityOrder(tasks) == [i \in DOMAIN tasks |-> i]

\* The for loop over the rounds from round r on, acc being what was
\* collected so far.
RECURSIVE RoundsFrom(_, _, _, _, _, _, _, _)
RoundsFrom(svc, cfg, rounds, r, target_languages, now, kinds, acc) ==
    IF r > Len(rounds)
    THEN {acc}
    ELSE UNION {
           IF \E i \in DOMAIN tasks : tasks[i].state = "raised"
           THEN {[acc EXCEPT !.raised = TRUE, !.enhanced_terms = <<>>, !.fallback_count = 0,
                             !.accepted = @ \o [i \in DOMAIN tasks |-> tasks[i].accepted]]}
           ELSE LET round_results == gather(tasks, IdentityOrder(tasks))
                IN  RoundsFrom(svc, cfg, rounds, r + 1, target_languages, now, kinds,
                      [acc EXCEPT
                         !.enhanced_terms =
                             @ \o Concat([i \in DOMAIN round_results |-> round_results[i].terms]),
                         !.fallback_count =
                             @ + SumSeq([i \in DOMAIN round_results |-> round_results[i].fallback]),
                         !.accepted = @ \o [i \in DOMAIN tasks |-> tasks[i].accepted]])
           : tasks \in RoundTasks(svc, cfg, rounds[r], target_languages, now, kinds) }

\* enhance_terms_batch: (enhanced_terms, fallback_count), or raised when an
\* exception left the call; accepted lists the accepted tier of each batch.
enhance_terms_batch(svc, cfg, term_infos, target_languages, batch_size, concurrent_batches, now, kinds) ==
    LET batches == create_batches(term_infos, batch_size)
        rounds  == create_rounds(batches, concurrent_batches)
    IN  RoundsFrom(svc, cfg, rounds, 1, target_languages, now, kinds,
                   [raised |-> FALSE, enhanced_terms |-> <<>>, fallback_count |-> 0,
                    accepted |-> <<>>])

\* AsyncBatchEnhancementService.enhance_terms_batch: the same scheduler over
\* the async orchestrator.
async_enhance_terms_batch(cfg, term_infos, target_languages, batch_size, concurrent_batches, now, kinds) ==
    enhance_terms_batch("async", cfg, term_infos, target_languages, batch_size,
                        concurrent_batches, now, kinds)

(***************************************************************************)
(* Cache layer: CachedEnhancementService (svc = "sync") and                 *)
(* AsyncCachedEnhancementService (svc = "async") over a Redis store.        *)
(* The store maps a key to [data, expires_at].                              *)
(***************************************************************************)
\* md5 of the sorted, comma-joined codes: stands for the multiset of codes.
lang_hash(target_languages) ==
    [l \in Range(target_languages) |->
        Cardinality({i \in DOMAIN target_languages : target_languages[i] = l})]

\* A term text is a sequence of characters: "A" and "a" stand for an upper
\* and a lower case letter, "b" for another letter, " " for white space.
\* str.strip()
RECURSIVE lstrip(_)
lstrip(text) ==
    IF text # <<>> /\ Head(text) = " " THEN lstrip(Tail(text)) ELSE text

RECURSIVE rstrip(_)
rstrip(text) ==
    IF text # <<>> /\ text[Len(text)] = " "
    THEN rstrip(SubSeq(text, 1, Len(text) - 1))
    ELSE text

strip(text) == rstrip(lstrip(text))

\* str.lower()
lower(text) == [i \in DOMAIN text |-> IF text[i] = "A" THEN "a" ELSE text[i]]

\* str.replace(" ", "_")
replace_spaces(text) == [i \in DOMAIN text |-> IF text[i] = " " THEN "_" ELSE text[i]]

\* CachedEnhancementService._generate_cache_key:
\* f"web_enhancement:{term.strip().lower().replace(' ', '_')}:{lang_hash}"
generate_cache_key(term, target_languages) ==
    [term |-> replace_spaces(lower(strip(term))), lang_hash |-> lang_hash(target_languages)]

\* AsyncCachedEnhancementService._generate_cache_key:
\* f"web_enhancement:{term.strip().lower()}:{lang_hash}"
async_generate_cache_key(term, target_languages) ==
    [term |-> lower(strip(term)), lang_hash |-> lang_hash(target_languages)]

\* The key the service svc derives.
cache_key(svc, term, target_languages) ==
    IF svc = "sync"
    THEN generate_cache_key(term, target_languages)
    ELSE async_generate_cache_key(term, target_languages)

\* EnhancedTerm.is_complete
is_complete(term) == SUPPORTED_LANGUAGES \subseteq DOMAIN term.translations

\* EnhancedTerm.get_completion_rate, in tenths: len(translations) / 10.0
get_completion_rate(term) == Cardinality(DOMAIN term.translations)

\* EnhancedTerm.to_dict
to_dict(term) ==
    [original_term |-> term.original_term, translations |-> term.translations,
     web_sources |-> term.web_sources, source |-> term.source,
     confidence_score |-> term.confidence_score,
     search_timestamp |-> term.search_timestamp,
     completion_rate |-> get_completion_rate(term),
     is_complete |-> is_complete(term)]

\* EnhancedTerm.from_dict: the entity itself, not a Result
from_dict(data) ==
    EnhancedTerm(data.original_term, data.translations, data.web_sources,
                 data.source, data.confidence_score, data.search_timestamp)

valid_sources == {"gpt4o_web", "gemini_web", "unknown"}

\* EnhancedTerm.create: a Result; search_timestamp or datetime.utcnow()
create(original_term, translations, web_sources, source, confidence_score, search_timestamp, now) ==
    IF ~(0 <= confidence_score /\ confidence_score <= 10)
    THEN Failure("confidence")
    ELSE IF source \notin valid_sources
    THEN Failure("source")
    ELSE IF DOMAIN translations \ SUPPORTED_LANGUAGES # {}
    THEN Failure("language")
    ELSE Success(EnhancedTerm(original_term, translations, web_sources, source,
                              confidence_score,
                              IF search_timestamp = NoTimestamp THEN now ELSE search_timestamp))

\* EnhancedTerm.add_translation: the Result and the entity after the call
\* (translations[language_code] = translation.strip()).
add_translation(term, language_code, translation) ==
    IF language_code \notin SUPPORTED_LANGUAGES
    THEN [result |-> Failure("language"), term |-> term]
    ELSE IF strip(translation) = <<>>
    THEN [result |-> Failure("empty"), term |-> term]
    ELSE [result |-> Success("None"),
          term |-> [term EXCEPT !.translations =
                       [l \in DOMAIN @ \cup {language_code} |->
                           IF l = language_code THEN strip(translation) ELSE @[l]]]]

(***************************************************************************)
(* Specification of one EnhancedTerm: built by create or from_dict, then    *)
(* changed by add_translation.                                              *)
(***************************************************************************)
TermCodes == {"ko", "en", "xx"}

\* Translation texts: empty, blank, padded and plain.
TermTexts == {<<>>, <<" ">>, <<" ", "t">>, <<"u">>}

TermTranslations == UNION {[codes -> {<<"t">>, <<"u">>}] : codes \in SUBSET TermCodes}

NoTerm == EnhancedTerm(<<>>, <<>>, <<>>, "unknown", 0, NoTimestamp)

TermInit ==
    /\ orch = IdleOrch
    /\ sched = IdleSched
    /\ csvc = IdleCsvc
    /\ mem = IdleMem
    /\ fn = [pc |-> "none", op |-> "none", term |-> NoTerm, result |-> NoResult]

TermCreate ==
    /\ \E translations \in TermTranslations :
        LET r == create(<<"a">>, translations, <<>>, "unknown", 0, NoTimestamp, 1)
        IN  fn' = IF r.ok
                  THEN [pc |-> "term", op |-> "create", term |-> r.value, result |-> r]
                  ELSE [pc |-> "none", op |-> "create", term |-> NoTerm, result |-> r]
    /\ UNCHANGED <<orch, sched, csvc, mem>>

TermFromDict ==
    /\ \E translations \in TermTranslations :
        fn' = [pc |-> "term", op |-> "from_dict",
               term |-> from_dict(to_dict(EnhancedTerm(<<"a">>, translations, <<>>,
                                                       "unknown", 0, NoTimestamp))),
               result |-> NoResult]
    /\ UNCHANGED <<orch, sched, csvc, mem>>

TermAddTranslation ==
    /\ fn.pc = "term"
    /\ \E language_code \in TermCodes, translation \in TermTexts :
        LET r == add_translation(fn.term, language_code, translation)
        IN  fn' = [fn EXCEPT !.op = "add_translation", !.term = r.term,
                             !.result = r.result]
    /\ UNCHANGED <<orch, sched, csvc, mem>>

TermNext == TermCreate \/ TermFromDict \/ TermAddTranslation

SpecTerm == TermInit /\ [][TermNext]_vars

\* redis get: the value of a key that is stored and not expired
RedisGet(store, key, now) ==
    IF key \in DOMAIN store /\ now < store[key].expires_at
    THEN Success(store[key].data)
    ELSE Failure("None")

\* redis setex
RedisSetex(store, key, ttl, data, now) ==
    [k \in DOMAIN store \cup {key} |->
        IF k = key THEN [data |-> data, expires_at |-> now + ttl] ELSE store[k]]

\* Expired keys leave the store.
RedisExpire(store, now) ==
    [k \in {x \in DOMAIN store : now < store[x].expires_at} |-> store[k]]

\* A Result has is_success; an entity has not.
IsResult(x) == "ok" \in DOMAIN x

\* What goes wrong in the store during one call, for the key of one term:
\*   get_error     redis get raises redis.RedisError (store unreachable)
\*   decode_error  json.loads of the stored text raises JSONDecodeError
\*   setex_error   redis setex raises redis.RedisError
FaultKinds == {"get_error", "decode_error", "setex_error"}

NoFault == [term |-> <<>>, kind |-> "none"]

Fails(fault, term, kind) == fault.term = term /\ fault.kind = kind

(***************************************************************************)
(* Specification of the key derivation: the keys of two lookups.            *)
(***************************************************************************)
\* Longest term text and longest language list given to the key derivation.
MaxTextLen == 2

MaxKeyLangs == 2

KeyChars == {"A", "a", " "}

KeyTexts == UNION {[1..n -> KeyChars] : n \in 0..MaxTextLen}

KeyLanguages == UNION {[1..n -> {"en", "ko"}] : n \in 1..MaxKeyLangs}

NoKey == [term |-> <<>>, lang_hash |-> <<>>]

KeyInit ==
    /\ orch = IdleOrch
    /\ sched = IdleSched
    /\ csvc = IdleCsvc
    /\ mem = IdleMem
    /\ \E svc \in Services, term_a \in KeyTexts, term_b \in KeyTexts,
          langs_a \in KeyLanguages, langs_b \in KeyLanguages :
        fn = [pc |-> "key", svc |-> svc, term_a |-> term_a, langs_a |-> langs_a,
              term_b |-> term_b, langs_b |-> langs_b, key_a |-> NoKey, key_b |-> NoKey]

GenerateCacheKeys ==
    /\ fn.pc = "key"
    /\ fn' = [fn EXCEPT !.pc = "keyed",
                        !.key_a = cache_key(fn.svc, fn.term_a, fn.langs_a),
                        !.key_b = cache_key(fn.svc, fn.term_b, fn.langs_b)]
    /\ UNCHANGED <<orch, sched, csvc, mem>>

KeyNext == GenerateCacheKeys

SpecKey == KeyInit /\ [][KeyNext]_vars

\* CachedEnhancementService._get_from_cache: the entity is rebuilt with
\* EnhancedTerm.create, which is not given the stored search_timestamp.
get_from_cache(store, term_info, target_languages, now, fault) ==
    LET cached_data == RedisGet(store, generate_cache_key(term_info, target_languages), now)
    IN  IF Fails(fault, term_info, "get_error")
        THEN Failure("redis_error")
        ELSE IF ~cached_data.ok
        THEN Failure("miss")
        ELSE IF Fails(fault, term_info, "decode_error")
        THEN Failure("json_error")
        ELSE LET data == cached_data.value
             IN  create(data.original_term, data.translations, data.web_sources,
                        data.source, data.confidence_score, NoTimestamp, now)

\* AsyncCachedEnhancementService lookup of one term (lines 109-126):
\* the redis get is awaited outside any try; json.loads and
\* term_result = EnhancedTerm.from_dict(term_dict); term_result.is_success()
\* are inside try / except Exception: pass, and what is not a hit is a miss.
async_get_from_cache(store, term_info, target_languages, now, fault) ==
    LET cached_data == RedisGet(store, async_generate_cache_key(term_info, target_languages), now)
    IN  IF Fails(fault, term_info, "get_error")
        THEN Raised("redis_error")
        ELSE IF ~cached_data.ok
        THEN Failure("miss")
        ELSE IF Fails(fault, term_info, "decode_error")
        THEN Failure("miss")
        ELSE LET term_result == from_dict(cached_data.value)
             IN  IF IsResult(term_result) /\ term_result.ok
                 THEN term_result
                 ELSE Failure("miss")

\* The lookup loop over term_infos (step 1 of enhance_terms_with_cache).
RECURSIVE lookup_from(_, _, _, _, _, _, _, _)
lookup_from(svc, store, term_infos, target_languages, now, fault, i, acc) ==
    IF i > Len(term_infos)
    THEN acc
    ELSE LET cached_result ==
                 IF svc = "sync"
                 THEN get_from_cache(store, term_infos[i], target_languages, now, fault)
                 ELSE async_get_from_cache(store, term_infos[i], target_languages, now, fault)
         IN  IF HasRaised(cached_result)
             THEN [acc EXCEPT !.raised = TRUE]
             ELSE lookup_from(svc, store, term_infos, target_languages, now, fault, i + 1,
                     IF cached_result.ok
                     THEN [acc EXCEPT !.cached_terms = Append(@, cached_result.value),
                                      !.cache_hits = @ + 1]
                     ELSE [acc EXCEPT !.terms_to_process = Append(@, term_infos[i])])

\* The lookup with every term also handed on for processing.
cache_lookup_resend(svc, store, term_infos, target_languages, now, use_cache, fault) ==
    [lookup_from(svc, store, term_infos, target_languages, now, fault, 1,
                 [cached_terms |-> <<>>, cache_hits |-> 0, terms_to_process |-> <<>>,
                  raised |-> FALSE])
        EXCEPT !.terms_to_process = term_infos]

\* The lookup made whatever use_cache says.
cache_lookup_always(svc, store, term_infos, target_languages, now, use_cache, fault) ==
    lookup_from(svc, store, term_infos, target_languages, now, fault, 1,
                [cached_terms |-> <<>>, cache_hits |-> 0, terms_to_process |-> <<>>,
                 raised |-> FALSE])

cache_lookup(svc, store, term_infos, target_languages, now, use_cache, fault) ==
    IF use_cache
    THEN lookup_from(svc, store, term_infos, target_languages, now, fault, 1,
                     [cached_terms |-> <<>>, cache_hits |-> 0, terms_to_process |-> <<>>,
                      raised |-> FALSE])
    ELSE [cached_terms |-> <<>>, cache_hits |-> 0, terms_to_process |-> term_infos,
          raised |-> FALSE]

\* _save_to_cache: an exception of setex is caught and the store is as before
save_to_cache(svc, store, term, target_languages, ttl, now, fault) ==
    IF Fails(fault, term.original_term, "setex_error")
    THEN store
    ELSE RedisSetex(store, cache_key(svc, term.original_term, target_languages),
                    ttl, to_dict(term), now)

UncachedSources == {"gemini_simple", "gpt4o_mini"}

\* Step 3: the sync service saves the terms whose source is not a plain
\* translation; the async service (_save_to_cache_batch) saves every term.
RECURSIVE save_from(_, _, _, _, _, _, _, _)
save_from(svc, store, enhanced_terms, target_languages, ttl, now, fault, i) ==
    IF i > Len(enhanced_terms)
    THEN store
    ELSE save_from(svc,
            IF svc = "async" \/ enhanced_terms[i].source \notin UncachedSources
            THEN save_to_cache(svc, store, enhanced_terms[i], target_languages, ttl, now, fault)
            ELSE store,
            enhanced_terms, target_languages, ttl, now, fault, i + 1)

\* Provider answers and configurations drawn in the cache specification.
CacheKinds == {"error", "ok", "extra"}

FullChain == [fallback |-> TRUE, simple |-> TRUE, final |-> TRUE]

FactoryChain == [fallback |-> FALSE, simple |-> FALSE, final |-> FALSE]

CacheConfigs == {FullChain, FactoryChain}

CacheLanguages == <<"ko", "en">>

\* The term texts the requests of the cached service are made of.
CacheTerms == {<<"a">>, <<"b">>}

\* Requests: the non-empty lists of distinct terms.
CacheInputs ==
    { xs \in UNION {[1..n -> CacheTerms] : n \in 1..Cardinality(CacheTerms)} :
        \A i, j \in DOMAIN xs : i # j => xs[i] # xs[j] }

(***************************************************************************)
(* The /enhance route over CachedEnhancementService and its response DTO.   *)
(***************************************************************************)
\* concurrent_batches default of enhance_terms_with_cache
DefaultConcurrentBatches == 3

\* Field bounds of the EnhanceRequest model (le=10, le=5) and its defaults.
FieldMaxBatchSize == 10

FieldMaxConcurrent == 5

DefaultBatchSize == 5

\* Upper bounds checked by EnhancementRequestDTO.create.
DtoMaxBatchSize == 10

DtoMaxConcurrent == 15

\* A request field that may be left out: <<>> when omitted, <<v>> when given.
FieldOr(field, default) == IF field = <<>> THEN default ELSE field[1]

\* EnhanceRequest (pydantic): batch_size ge=1 le=10, concurrent_batches ge=1
\* le=5; a value outside is answered 422 before the handler runs.
EnhanceRequest(batch_size, concurrent_batches) ==
    IF batch_size < 1 \/ batch_size > FieldMaxBatchSize
    THEN Failure("batch_size")
    ELSE IF concurrent_batches < 1 \/ concurrent_batches > FieldMaxConcurrent
    THEN Failure("concurrent_batches")
    ELSE Success("None")

\* EnhancementRequestDTO.create: the input checks in the order of the code.
create_request_dto(terms, target_languages, batch_size, concurrent_batches) ==
    IF terms = <<>> THEN Failure("empty_terms")
    ELSE IF batch_size < 1 THEN Failure("batch_size_low")
    ELSE IF batch_size > DtoMaxBatchSize THEN Failure("batch_size_high")
    ELSE IF concurrent_batches < 1 THEN Failure("concurrent_low")
    ELSE IF concurrent_batches > DtoMaxConcurrent THEN Failure("concurrent_high")
    ELSE IF \E i \in DOMAIN target_languages : ~is_valid(target_languages[i])
    THEN Failure("invalid_language")
    ELSE Success("None")

\* The route up to the service call: 422 from the request model, 400 from
\* the DTO, 0 when the request goes on to enhance_terms_with_cache.
request_status(terms, target_languages, batch_size, concurrent_batches) ==
    IF ~EnhanceRequest(batch_size, concurrent_batches).ok THEN 422
    ELSE IF ~create_request_dto(terms, target_languages, batch_size, concurrent_batches).ok
    THEN 400
    ELSE 0

(***************************************************************************)
(* Specification of the request checks of the /enhance route.               *)
(***************************************************************************)
\* Largest batch_size and concurrent_batches a request carries.
MaxReqBatchSize == 21

MaxReqConcurrent == 16

RequestInit ==
    /\ orch = IdleOrch
    /\ sched = IdleSched
    /\ csvc = IdleCsvc
    /\ mem = IdleMem
    /\ \E terms \in {<<>>, <<"a">>},
          target_languages \in {<<"ko", "en">>, <<"en", "xx">>},
          batch_size \in {<<>>} \cup {<<n>> : n \in 0..MaxReqBatchSize},
          concurrent_batches \in {<<>>} \cup {<<n>> : n \in 0..MaxReqConcurrent} :
        fn = [pc |-> "request", terms |-> terms, target_languages |-> target_languages,
              batch_size |-> FieldOr(batch_size, DefaultBatchSize),
              concurrent_batches |-> FieldOr(concurrent_batches, DefaultConcurrentBatches),
              given |-> <<batch_size # <<>>, concurrent_batches # <<>> >>,
              dto |-> NoResult, status |-> 0]

\* The route receives the request and checks it.
ReceiveRequest ==
    /\ fn.pc = "request"
    /\ fn' = [fn EXCEPT !.pc = "checked",
                        !.dto = create_request_dto(fn.terms, fn.target_languages,
                                    fn.batch_size, fn.concurrent_batches),
                        !.status = request_status(fn.terms, fn.target_languages,
                                       fn.batch_size, fn.concurrent_batches)]
    /\ UNCHANGED <<orch, sched, csvc, mem>>

RequestNext == ReceiveRequest

SpecRequest == RequestInit /\ [][RequestNext]_vars

\* EnhancementRequestDTO.get_total_batches: math.ceil(len(terms) / batch_size)
get_total_batches(terms, batch_size) == (Len(terms) + batch_size - 1) \div batch_size

\* EnhancementResponseDTO.create (errors or [])
EnhancementResponseDTO(enhanced_terms, total_terms, cache_hits, total_batches, fallback_count, errors) ==
    [enhanced_terms |-> enhanced_terms,
     summary |-> [total_terms |-> total_terms,
                  enhanced_terms |-> Len(enhanced_terms),
                  failed_terms |-> total_terms - Len(enhanced_terms),
                  cache_hits |-> cache_hits,
                  total_batches |-> total_batches,
                  fallback_count |-> fallback_count],
     errors |-> errors]

\* EnhancementResponseDTO.to_dict: the errors key is there only when the
\* list is not empty.
response_to_dict(dto) ==
    IF dto.errors # <<>>
    THEN [enhanced_terms |-> dto.enhanced_terms, summary |-> dto.summary,
          errors |-> dto.errors]
    ELSE [enhanced_terms |-> dto.enhanced_terms, summary |-> dto.summary]

NoResponse == [status |-> 0]

\* The route handler after enhance_terms_with_cache returned or raised:
\* create is called without errors; any exception becomes HTTP 500.
enhance_route(call) ==
    IF call.raised
    THEN [status |-> 500]
    ELSE [status |-> 200,
          body |-> response_to_dict(
                     EnhancementResponseDTO(call.all_terms, Len(call.term_infos),
                         call.cache_hits,
                         get_total_batches(call.term_infos, call.batch_size),
                         call.fallback_count, <<>>))]

\* The state of the service with the response the route gives for the call
\* (the route is built over the sync service only).
Responded(c) ==
    [c EXCEPT !.response = IF c.svc = "sync" THEN enhance_route(c.last) ELSE NoResponse]

\* The faults one call can meet: none, or one kind of fault on one term.
CacheFaults == {NoFault} \cup [term : CacheTerms, kind : FaultKinds]

NoCall ==
    [term_infos |-> <<>>, target_languages |-> <<>>, use_cache |-> FALSE,
     batch_size |-> 1, fault |-> NoFault, rejected |-> FALSE,
     redis_before |-> <<>>, raised |-> FALSE, redis_raised |-> FALSE,
     looked_up |-> <<>>,
     cached_terms |-> <<>>, terms_to_process |-> <<>>, enhanced_terms |-> <<>>,
     accepted |-> <<>>, all_terms |-> <<>>, cache_hits |-> 0, fallback_count |-> 0]

CacheInit ==
    /\ orch = IdleOrch
    /\ sched = IdleSched
    /\ mem = IdleMem
    /\ fn = IdleFn
    /\ \E svc \in Services, cfg \in CacheConfigs :
        csvc = [pc |-> "ready", svc |-> svc, cfg |-> cfg, redis |-> <<>>, now |-> 1,
                last |-> NoCall, response |-> NoResponse]

\* Requests the route turns down: no terms, or a language that is not
\* supported.
RejectedLanguages == <<"ko", "xx">>

\* The /enhance route answers a request that fails its checks: HTTP 400
\* before enhance_terms_with_cache is called.
EnhanceRequestRejected ==
    /\ csvc.pc = "ready"
    /\ csvc.svc = "sync"
    /\ \E term_infos \in CacheInputs \cup {<<>>},
          target_languages \in {CacheLanguages, RejectedLanguages},
          batch_size \in 1..MaxBatchSize :
        LET status == request_status(term_infos, target_languages, batch_size,
                                     DefaultConcurrentBatches)
        IN  /\ status # 0
            /\ csvc' = [csvc EXCEPT !.pc = "returned",
                            !.last = [NoCall EXCEPT !.term_infos = term_infos,
                                         !.target_languages = target_languages,
                                         !.batch_size = batch_size,
                                         !.redis_before = csvc.redis,
                                         !.rejected = TRUE],
                            !.response = [status |-> status]]
    /\ UNCHANGED <<orch, sched, mem, fn>>

\* One enhance_terms_with_cache call, from the lookup to the return (for the
\* sync service: the /enhance request that passed the checks of the route).
EnhanceTermsWithCache ==
    /\ csvc.pc = "ready"
    /\ \E term_infos \in CacheInputs, use_cache \in BOOLEAN,
          batch_size \in 1..MaxBatchSize, fault \in CacheFaults :
        LET concurrent_batches == DefaultConcurrentBatches
            lk == cache_lookup(csvc.svc, csvc.redis, term_infos, CacheLanguages,
                               csvc.now, use_cache, fault)
            call == [NoCall EXCEPT !.term_infos = term_infos, !.use_cache = use_cache,
                                   !.target_languages = CacheLanguages,
                                   !.batch_size = batch_size,
                                   !.fault = fault, !.redis_before = csvc.redis,
                                   !.looked_up =
                                       IF use_cache
                                       THEN [i \in DOMAIN term_infos |->
                                               RedisGet(csvc.redis,
                                                   cache_key(csvc.svc, term_infos[i], CacheLanguages),
                                                   csvc.now)]
                                       ELSE <<>>,
                                   !.cached_terms = lk.cached_terms,
                                   !.terms_to_process = lk.terms_to_process,
                                   !.cache_hits = lk.cache_hits]
        IN  IF ~use_cache /\ fault # NoFault
            THEN FALSE
            ELSE IF csvc.svc = "sync"
                    /\ request_status(term_infos, CacheLanguages, batch_size,
                                      concurrent_batches) # 0
            THEN FALSE
            ELSE IF lk.raised
            THEN csvc' = Responded([csvc EXCEPT !.pc = "returned",
                                       !.last = [call EXCEPT !.raised = TRUE,
                                                             !.redis_raised = TRUE]])
            ELSE IF lk.terms_to_process # <<>>
            THEN \E ret \in (IF csvc.svc = "sync"
                             THEN enhance_terms_batch("sync", csvc.cfg, lk.terms_to_process,
                                      CacheLanguages, batch_size, concurrent_batches,
                                      csvc.now, CacheKinds)
                             ELSE async_enhance_terms_batch(csvc.cfg, lk.terms_to_process,
                                      CacheLanguages, batch_size, concurrent_batches,
                                      csvc.now, CacheKinds)) :
                    IF ret.raised
                    THEN csvc' = Responded([csvc EXCEPT !.pc = "returned",
                                    !.last = [call EXCEPT !.raised = TRUE,
                                                          !.accepted = ret.accepted]])
                    ELSE csvc' = Responded([csvc EXCEPT !.pc = "returned",
                                    !.redis = IF use_cache
                                              THEN save_from(csvc.svc, @, ret.enhanced_terms,
                                                             CacheLanguages, CacheTtl, csvc.now,
                                                             fault, 1)
                                              ELSE @,
                                    !.last = [call EXCEPT
                                                !.enhanced_terms = ret.enhanced_terms,
                                                !.accepted = ret.accepted,
                                                !.fallback_count = ret.fallback_count,
                                                !.all_terms = lk.cached_terms \o ret.enhanced_terms]])
            ELSE csvc' = Responded([csvc EXCEPT !.pc = "returned",
                            !.last = [call EXCEPT !.all_terms = lk.cached_terms]])
    /\ UNCHANGED <<orch, sched, mem, fn>>

\* Time passes; expired keys leave the store.
Tick ==
    /\ csvc.pc = "ready"
    /\ csvc.now < MaxClock
    /\ csvc' = [csvc EXCEPT !.now = @ + 1, !.redis = RedisExpire(@, csvc.now + 1)]
    /\ UNCHANGED <<orch, sched, mem, fn>>

\* The caller has taken the response (or the exception) of the call.
ReturnToCaller ==
    /\ csvc.pc = "returned"
    /\ csvc' = [csvc EXCEPT !.pc = "ready", !.last = NoCall, !.response = NoResponse]
    /\ UNCHANGED <<orch, sched, mem, fn>>

CacheNext == EnhanceRequestRejected \/ EnhanceTermsWithCache \/ ReturnToCaller \/ Tick

SpecCache == CacheInit /\ [][CacheNext]_vars

(***************************************************************************)
(* MemoryCacheAdapter: _cache maps a key to CacheEntry(value, expires_at).   *)
(*   now      time.time()                                                    *)
(*   written  per key, the entry of the last set that no delete or clear     *)
(*            followed (history, not read by the adapter)                    *)
(*   last     the operation that just returned and its result               *)
(***************************************************************************)
MemKeys == {"k1", "k2"}

MemValues == {"a", "b"}

None == "None"

NoEntry == [value |-> None, expires_at |-> 0]

CacheEntry(value, expires_at) == [value |-> value, expires_at |-> expires_at]

Without(cache, key) == [k \in DOMAIN cache \ {key} |-> cache[k]]

\* the TTL test of get and exists: time.time() >= entry.expires_at
expired_at_expiry(now, entry) == now >= entry.expires_at

\* the TTL test of get and exists: time.time() > entry.expires_at
expired(now, entry) == now > entry.expires_at

\* MemoryCacheAdapter.get: the value returned and the cache left behind
get(cache, key, now) ==
    IF key \notin DOMAIN cache
    THEN [value |-> None, cache |-> cache]
    ELSE IF expired(now, cache[key])
    THEN [value |-> None, cache |-> Without(cache, key)]
    ELSE [value |-> cache[key].value, cache |-> cache]

\* MemoryCacheAdapter.set
set(cache, key, value, ttl, now) ==
    [k \in DOMAIN cache \cup {key} |->
        IF k = key THEN CacheEntry(value, now + ttl) ELSE cache[k]]

\* MemoryCacheAdapter.delete
delete(cache, key) == IF key \in DOMAIN cache THEN Without(cache, key) ELSE cache

\* MemoryCacheAdapter.exists
exists(cache, key, now) ==
    IF key \notin DOMAIN cache
    THEN [value |-> FALSE, cache |-> cache]
    ELSE IF expired(now, cache[key])
    THEN [value |-> FALSE, cache |-> Without(cache, key)]
    ELSE [value |-> TRUE, cache |-> cache]

\* MemoryCacheAdapter.size
size(cache, now) ==
    LET expired_keys == {k \in DOMAIN cache : now > cache[k].expires_at}
        kept == [k \in DOMAIN cache \ expired_keys |-> cache[k]]
    IN  [value |-> Cardinality(DOMAIN kept), cache |-> kept]

NoOp == [op |-> "none", key |-> None, value |-> None]

MemInit ==
    /\ orch = IdleOrch
    /\ sched = IdleSched
    /\ csvc = IdleCsvc
    /\ fn = IdleFn
    /\ mem = [pc |-> "ready", cache |-> <<>>, now |-> 0,
              written |-> [k \in MemKeys |-> NoEntry], last |-> NoOp]

MemGet ==
    /\ mem.pc = "ready"
    /\ \E key \in MemKeys :
        LET r == get(mem.cache, key, mem.now)
        IN  mem' = [mem EXCEPT !.cache = r.cache,
                               !.last = [op |-> "get", key |-> key, value |-> r.value]]
    /\ UNCHANGED <<orch, sched, csvc, fn>>

MemSet ==
    /\ mem.pc = "ready"
    /\ \E key \in MemKeys, value \in MemValues, ttl \in 0..MaxMemTtl :
        mem' = [mem EXCEPT !.cache = set(@, key, value, ttl, mem.now),
                           !.written[key] = CacheEntry(value, mem.now + ttl),
                           !.last = [op |-> "set", key |-> key, value |-> value]]
    /\ UNCHANGED <<orch, sched, csvc, fn>>

MemDelete ==
    /\ mem.pc = "ready"
    /\ \E key \in MemKeys :
        mem' = [mem EXCEPT !.cache = delete(@, key),
                           !.written[key] = NoEntry,
                           !.last = [op |-> "delete", key |-> key, value |-> None]]
    /\ UNCHANGED <<orch, sched, csvc, fn>>

MemClear ==
    /\ mem.pc = "ready"
    /\ mem' = [mem EXCEPT !.cache = <<>>,
                          !.written = [k \in MemKeys |-> NoEntry],
                          !.last = [op |-> "clear", key |-> None, value |-> None]]
    /\ UNCHANGED <<orch, sched, csvc, fn>>

MemExists ==
    /\ mem.pc = "ready"
    /\ \E key \in MemKeys :
        LET r == exists(mem.cache, key, mem.now)
        IN  mem' = [mem EXCEPT !.cache = r.cache,
                               !.last = [op |-> "exists", key |-> key, value |-> r.value]]
    /\ UNCHANGED <<orch, sched, csvc, fn>>

MemSize ==
    /\ mem.pc = "ready"
    /\ LET r == size(mem.cache, mem.now)
       IN  mem' = [mem EXCEPT !.cache = r.cache,
                              !.last = [op |-> "size", key |-> None, value |-> r.value]]
    /\ UNCHANGED <<orch, sched, csvc, fn>>

\* time.time() advances
MemTick ==
    /\ mem.pc = "ready"
    /\ mem.now < MaxMemClock
    /\ mem' = [mem EXCEPT !.now = @ + 1, !.last = NoOp]
    /\ UNCHANGED <<orch, sched, csvc, fn>>

MemNext ==
    MemGet \/ MemSet \/ MemDelete \/ MemClear \/ MemExists \/ MemSize \/ MemTick

SpecMem == MemInit /\ [][MemNext]_vars

(***************************************************************************)
(* Term extraction: chunks, the round-robin deal to the workers and the     *)
(* cached extraction service.                                               *)
(*   chunk_index is the index of the chunk in its file, from 0.             *)
(*   An ExtractionResult carries its chunk and an error (None on success).  *)
(***************************************************************************)
\* Most chunks in one file of a request.
MaxFileChunks == 2

\* Most workers of a parallel extraction.
MaxWorkers == 3

ChunkText(content, chunk_index, source_filename) ==
    [content |-> content, chunk_index |-> chunk_index, source_filename |-> source_filename]

\* ProcessedFileModel.to_chunk_texts: enumerate(self.chunks), idx from 0
to_chunk_texts(file) ==
    [i \in DOMAIN file.chunks |-> ChunkText(file.chunks[i], i - 1, file.filename)]

\* ExtractionRequestDTO.to_chunks: the chunks of all files, file after file
to_chunks(processed_files) ==
    Concat([f \in DOMAIN processed_files |-> to_chunk_texts(processed_files[f])])

\* ChunkText.cache_key: sha256 of "content:template_name" (one template)
chunk_cache_key(chunk) == chunk.content

\* ChunkTextBatch.split_for_parallel: chunk at position idx (from 0) goes to
\* worker idx % num_workers
split_for_parallel(chunks, num_workers) ==
    [w \in 1..num_workers |->
        [k \in 1..Cardinality({i \in DOMAIN chunks : (i - 1) % num_workers = w - 1}) |->
            chunks[(k - 1) * num_workers + w]]]

ExtractionResult(chunk, error) == [chunk |-> chunk, error |-> error]

\* One extractor call handled by the processing loop: the result of the
\* extractor, or ExtractionResult.failure when it answered Failure.
extract(chunk, kind) ==
    IF kind = "ok" THEN ExtractionResult(chunk, None) ELSE ExtractionResult(chunk, "error")

\* _process_chunks_sequential / _process_worker_batch over chunks paired
\* with the extractor's answer; an exception of the extractor ends the loop.
process_chunks_sequential(items) ==
    IF \E i \in DOMAIN items : items[i].kind = "raise"
    THEN [raised |-> TRUE, results |-> <<>>]
    ELSE [raised |-> FALSE,
          results |-> [i \in DOMAIN items |-> extract(items[i].chunk, items[i].kind)]]

\* list.sort(key=lambda r: r.chunk.chunk_index): a stable sort
RECURSIVE sort_by_chunk_index(_)
sort_by_chunk_index(results) ==
    IF results = <<>> THEN <<>>
    ELSE LET front  == sort_by_chunk_index(SubSeq(results, 1, Len(results) - 1))
             r      == results[Len(results)]
             before == SelectSeq(front, LAMBDA x : x.chunk.chunk_index <= r.chunk.chunk_index)
             after  == SelectSeq(front, LAMBDA x : x.chunk.chunk_index > r.chunk.chunk_index)
         IN  before \o <<r>> \o after

\* The merge after asyncio.gather(*tasks, return_exceptions=True): results
\* in task order, a worker that raised is left out, then the sort.
merge_worker_results(worker_results) ==
    sort_by_chunk_index(
        Concat([w \in DOMAIN worker_results |->
                   IF worker_results[w].raised THEN <<>> ELSE worker_results[w].results]))

\* _extract_without_cache / the dispatch of extract_from_documents
extract_without_cache(items, workers) ==
    IF workers > 1 /\ Len(items) > 1
    THEN LET worker_batches == split_for_parallel(items, workers)
         IN  [raised |-> FALSE,
              results |-> merge_worker_results(
                  [w \in DOMAIN worker_batches |->
                      process_chunks_sequential(worker_batches[w])])]
    ELSE process_chunks_sequential(items)

\* A dict filled in list order: the last entry of a key stays.
dict_of(entries) ==
    [k \in {entries[i].key : i \in DOMAIN entries} |->
        entries[CHOOSE i \in DOMAIN entries :
                    /\ entries[i].key = k
                    /\ \A j \in DOMAIN entries : entries[j].key = k => j <= i].value]

\* CachedTermExtractionService._extract_with_cache
extract_with_cache(cache, chunks, kinds, workers) ==
    LET IsHit(chunk) == chunk_cache_key(chunk) \in DOMAIN cache
        hits == SelectSeq(chunks, IsHit)
        cache_results ==
            dict_of([i \in DOMAIN hits |->
                        [key |-> hits[i].chunk_index,
                         value |-> cache[chunk_cache_key(hits[i])]]])
        chunks_to_process == SelectSeq(chunks, LAMBDA c : ~IsHit(c))
        processed ==
            IF chunks_to_process = <<>> THEN [raised |-> FALSE, results |-> <<>>]
            ELSE extract_without_cache(
                     [i \in DOMAIN chunks_to_process |->
                         [chunk |-> chunks_to_process[i], kind |-> kinds[i]]],
                     workers)
        saved == dict_of(
                     LET ok == SelectSeq(processed.results, LAMBDA r : r.error = None)
                     IN  [i \in DOMAIN ok |->
                             [key |-> chunk_cache_key(ok[i].chunk), value |-> ok[i]]])
        new_results ==
            dict_of([i \in DOMAIN processed.results |->
                        [key |-> processed.results[i].chunk.chunk_index,
                         value |-> processed.results[i]]])
        merged(chunk) ==
            IF chunk.chunk_index \in DOMAIN cache_results
            THEN cache_results[chunk.chunk_index]
            ELSE IF chunk.chunk_index \in DOMAIN new_results
            THEN new_results[chunk.chunk_index]
            ELSE ExtractionResult(chunk, "unknown")
    IN  [raised |-> processed.raised,
         cache |-> [k \in DOMAIN cache \cup DOMAIN saved |->
                       IF k \in DOMAIN saved THEN saved[k] ELSE cache[k]],
         results |-> IF processed.raised THEN <<>>
                     ELSE [i \in DOMAIN chunks |-> merged(chunks[i])]]

(***************************************************************************)
(* Specification of one parallel extraction: the workers take their chunks  *)
(* one at a time, in any interleaving, and the results are gathered.        *)
(***************************************************************************)
ExtractFiles == <<"f1", "f2">>

\* The requests: one file or both, each with 1..MaxFileChunks chunks.
ExtractRequests(contents) ==
    UNION { { [f \in 1..n |-> [filename |-> ExtractFiles[f], chunks |-> cs[f]]]
              : cs \in [1..n -> UNION {[1..k -> contents] : k \in 1..MaxFileChunks}] }
            : n \in 1..Len(ExtractFiles) }

ParallelInit ==
    /\ orch = IdleOrch
    /\ sched = IdleSched
    /\ csvc = IdleCsvc
    /\ mem = IdleMem
    /\ \E processed_files \in ExtractRequests({"x"}), num_workers \in 2..MaxWorkers :
        LET chunks   == to_chunks(processed_files)
            parallel == num_workers > 1 /\ Len(chunks) > 1
            batches  == IF parallel THEN split_for_parallel(chunks, num_workers)
                        ELSE <<chunks>>
        IN  fn = [pc |-> "running", chunks |-> chunks, num_workers |-> num_workers,
                  parallel |-> parallel,
                  workers |-> [w \in DOMAIN batches |->
                                  [todo |-> batches[w], raised |-> FALSE, results |-> <<>>]],
                  results |-> <<>>]

\* One worker's next extractor call returns or raises.
WorkerExtract ==
    /\ fn.pc = "running"
    /\ \E w \in DOMAIN fn.workers, kind \in {"ok", "error", "raise"} :
        /\ fn.workers[w].todo # <<>>
        /\ ~fn.workers[w].raised
        /\ fn' = [fn EXCEPT !.workers[w] =
                     IF kind = "raise"
                     THEN [@ EXCEPT !.raised = TRUE, !.results = <<>>]
                     ELSE [@ EXCEPT !.todo = Tail(@),
                                    !.results = Append(@, extract(Head(fn.workers[w].todo), kind))]]
    /\ UNCHANGED <<orch, sched, csvc, mem>>

\* asyncio.gather returned: every worker is through its chunks or raised.
GatherWorkers ==
    /\ fn.pc = "running"
    /\ \A w \in DOMAIN fn.workers : fn.workers[w].todo = <<>> \/ fn.workers[w].raised
    /\ fn' = IF fn.parallel
              THEN [fn EXCEPT !.pc = "done", !.results = merge_worker_results(fn.workers)]
              ELSE IF fn.workers[1].raised
              THEN [fn EXCEPT !.pc = "raised"]
              ELSE [fn EXCEPT !.pc = "done", !.results = fn.workers[1].results]
    /\ UNCHANGED <<orch, sched, csvc, mem>>

ParallelNext == WorkerExtract \/ GatherWorkers

SpecParallel == ParallelInit /\ [][ParallelNext]_vars

(***************************************************************************)
(* Specification of CachedTermExtractionService: calls of                   *)
(* extract_from_documents over one cache.  At most one extractor call of a  *)
(* request answers Failure.                                                 *)
(***************************************************************************)
ExtractInit ==
    /\ orch = IdleOrch
    /\ sched = IdleSched
    /\ csvc = IdleCsvc
    /\ mem = IdleMem
    /\ fn = [pc |-> "ready", cache |-> <<>>, use_cache |-> FALSE, chunks |-> <<>>,
             results |-> <<>>]

ExtractFromDocuments ==
    /\ fn.pc = "ready"
    /\ \E processed_files \in ExtractRequests({"x", "y"}), use_cache \in BOOLEAN,
          parallel_workers \in {1, 2} :
        LET chunks == to_chunks(processed_files)
        IN  \E failing \in 0..Len(chunks) :
                LET kinds == [i \in DOMAIN chunks |-> IF i = failing THEN "error" ELSE "ok"]
                    items == [i \in DOMAIN chunks |-> [chunk |-> chunks[i], kind |-> kinds[i]]]
                IN  IF use_cache
                    THEN LET r == extract_with_cache(fn.cache, chunks, kinds, parallel_workers)
                         IN  fn' = [fn EXCEPT !.pc = "returned", !.cache = r.cache,
                                              !.use_cache = TRUE, !.chunks = chunks,
                                              !.results = r.results]
                    ELSE fn' = [fn EXCEPT !.pc = "returned", !.use_cache = FALSE,
                                          !.chunks = chunks,
                                          !.results =
                                              extract_without_cache(items, parallel_workers).results]
    /\ UNCHANGED <<orch, sched, csvc, mem>>

\* The caller has taken the response.
ExtractReturn ==
    /\ fn.pc = "returned"
    /\ fn' = [fn EXCEPT !.pc = "ready", !.chunks = <<>>, !.results = <<>>]
    /\ UNCHANGED <<orch, sched, csvc, mem>>

ExtractNext == ExtractFromDocuments \/ ExtractReturn

SpecExtract == ExtractInit /\ [][ExtractNext]_vars

(***************************************************************************)
(* Properties of the fallback orchestrator (SpecOrch)                       *)
(***************************************************************************)
\* The validation the specification describes for tier i: evidence is
\* required of tiers 1 and 2 only.
RequireEvidence(tier) == tier <= 2

PassesValidation(tier, resp, target_languages) ==
    /\ resp.ok
    /\ resp.value # <<>>
    /\ \A i \in DOMAIN resp.value :
        /\ \A k \in DOMAIN target_languages :
               has_translation(resp.value[i], target_languages[k])
        /\ resp.value[i].confidence_score >= ConfThreshold
        /\ RequireEvidence(tier) => resp.value[i].web_sources # <<>>

LastCall(o) == o.calls[Len(o.calls)]

TiersOf(xs) == [i \in DOMAIN xs |-> xs[i].tier]

\* C1: tiers are invoked in configured order, each at most once, tier i+1
\* only after tier i returned an error or failed validation, and a Success
\* carries exactly the output of the first tier whose call succeeded and
\* whose output passed validation.
C1_FirstValidTierAccepted ==
    /\ \A i \in 1..(Len(orch.calls) - 1) :
        /\ orch.calls[i].tier < orch.calls[i + 1].tier
        /\ ~PassesValidation(orch.calls[i].tier, orch.calls[i].resp, orch.target_languages)
    /\ (orch.pc = "done" /\ orch.result.ok) =>
        /\ orch.calls # <<>>
        /\ orch.result = LastCall(orch).resp
        /\ PassesValidation(LastCall(orch).tier, LastCall(orch).resp, orch.target_languages)

\* The call is over and every tier it invoked was rejected.
EveryAttemptedTierFailed(o) ==
    /\ o.pc \in {"done", "raised"}
    /\ o.calls # <<>>
    /\ \A i \in DOMAIN o.calls : ~HasRaised(o.calls[i].resp)
    /\ ~(o.pc = "done" /\ o.result.ok)

\* C2: when every configured tier fails the call returns one failure whose
\* message holds one reason per attempted tier, in attempt order, and no
\* reason of a tier that was not attempted.
C2_AggregatedFailure ==
    EveryAttemptedTierFailed(orch) =>
        /\ orch.pc = "done"
        /\ ~orch.result.ok
        /\ TiersOf(SelectSeq(orch.result.error, LAMBDA r : r.tier # 0)) = TiersOf(orch.calls)

\* C3: every tier's output is validated before it is accepted, so every
\* Success returned, from any tier, is non-empty and has all requested
\* languages for every term and confidence >= 0.5.
C3_EverySuccessValidated ==
    (orch.pc = "done" /\ orch.result.ok) =>
        /\ orch.result.value # <<>>
        /\ \A i \in DOMAIN orch.result.value :
            /\ \A k \in DOMAIN orch.target_languages :
                   has_translation(orch.result.value[i], orch.target_languages[k])
            /\ orch.result.value[i].confidence_score >= ConfThreshold

\* The provider calls of the orchestration that ended with an exception.
RaisedCalls == {i \in DOMAIN orch.calls : HasRaised(orch.calls[i].resp)}

\* C14: a provider call that raises or times out is an ordinary failure of
\* its tier: a reason is recorded for the tier and the orchestration call is
\* not aborted.
C14_ProviderRaiseIsTierFailure ==
    \A i \in RaisedCalls :
        /\ orch.pc # "raised"
        /\ \E k \in DOMAIN orch.errors : orch.errors[k].tier = orch.calls[i].tier

\* C25: a result the orchestrator accepts has exactly one EnhancedTerm per
\* TermInfo of the batch, in the same order; an output with fewer or more
\* terms than the batch is rejected.
C25_OneTermPerInput ==
    (orch.pc = "done" /\ orch.result.ok) =>
        /\ Len(orch.result.value) = Len(orch.term_infos)
        /\ \A i \in DOMAIN orch.result.value :
               /\ i \in DOMAIN orch.term_infos
               /\ orch.result.value[i].original_term = orch.term_infos[i]

\* The tiers whose adapter is set.
PresentTiers(cfg) ==
    {1} \cup (IF cfg.fallback THEN {2} ELSE {})
        \cup (IF cfg.simple THEN {3} ELSE {})
        \cup (IF cfg.final THEN {4} ELSE {})

\* An orchestration call over a chain with an absent tier is over, it did
\* call a provider and no provider call raised.
EndedWithAbsentTier ==
    /\ orch.pc \in {"done", "raised"}
    /\ PresentTiers(orch.cfg) # Tiers
    /\ orch.calls # <<>>
    /\ RaisedCalls = {}

\* C15: with absent tiers the call skips them without invoking them and
\* without raising, and ends in Success or, after every present tier was
\* attempted, in the aggregated failure.
C15_AbsentTiersSkipped ==
    EndedWithAbsentTier =>
        /\ orch.pc = "done"
        /\ Range(TiersOf(orch.calls)) \subseteq PresentTiers(orch.cfg)
        /\ ~orch.result.ok => Range(TiersOf(orch.calls)) = PresentTiers(orch.cfg)

(***************************************************************************)
(* Properties of the validator (SpecValidate)                               *)
(***************************************************************************)
\* What the validator is to reject in a term.
TermFails(term, target_languages, require_evidence) ==
    \/ missing_languages(term, target_languages) # <<>>
    \/ term.confidence_score < ConfThreshold
    \/ require_evidence /\ term.web_sources = <<>>

FailingTerms(enhanced_terms, target_languages, require_evidence) ==
    {i \in DOMAIN enhanced_terms :
        TermFails(enhanced_terms[i], target_languages, require_evidence)}

ShouldPass(enhanced_terms, target_languages, require_evidence) ==
    /\ enhanced_terms # <<>>
    /\ FailingTerms(enhanced_terms, target_languages, require_evidence) = {}

FirstFailing(enhanced_terms, target_languages, require_evidence) ==
    CHOOSE i \in FailingTerms(enhanced_terms, target_languages, require_evidence) :
        \A j \in FailingTerms(enhanced_terms, target_languages, require_evidence) : i <= j

\* C16: the validator succeeds exactly when the list is non-empty and every
\* term has all requested languages, confidence >= 0.5 and, when evidence is
\* required, a web source; a failure names the first failing term and the
\* languages it lacks.
C16_ValidatorVerdict ==
    fn.pc = "validated" =>
        /\ fn.result.ok <=>
               ShouldPass(fn.enhanced_terms, fn.target_languages, fn.require_evidence)
        /\ (~fn.result.ok /\ fn.enhanced_terms # <<>>) =>
               LET i == FirstFailing(fn.enhanced_terms, fn.target_languages,
                                     fn.require_evidence)
                   missing == missing_languages(fn.enhanced_terms[i], fn.target_languages)
               IN  /\ fn.result.error.term = fn.enhanced_terms[i].original_term
                   /\ missing # <<>> => fn.result.error.langs = missing

\* The first check of the list (1 non-empty, 2 languages, 3 confidence,
\* 4 evidence) that some term violates; "none" when all checks pass.
FirstViolatedCheck(enhanced_terms, target_languages, require_evidence) ==
    IF enhanced_terms = <<>> THEN "empty"
    ELSE IF \E i \in DOMAIN enhanced_terms :
                missing_languages(enhanced_terms[i], target_languages) # <<>>
    THEN "missing"
    ELSE IF \E i \in DOMAIN enhanced_terms :
                enhanced_terms[i].confidence_score < ConfThreshold
    THEN "lowconf"
    ELSE IF require_evidence /\ \E i \in DOMAIN enhanced_terms :
                enhanced_terms[i].web_sources = <<>>
    THEN "nosrc"
    ELSE "none"

\* C24: with evidence required, the validator fails on the first violated
\* check in the order non-empty, languages, confidence, evidence: when one
\* term violates check 3 or 4 and a later term violates check 2, the failure
\* reported is the missing translation.
C24_ChecksInOrder ==
    (fn.pc = "validated" /\ fn.require_evidence) =>
        LET check == FirstViolatedCheck(fn.enhanced_terms, fn.target_languages,
                                        fn.require_evidence)
        IN  IF check = "none"
            THEN fn.result.ok
            ELSE ~fn.result.ok /\ fn.result.error.why = check

(***************************************************************************)
(* Properties of the splitter (SpecSplit)                                   *)
(***************************************************************************)
\* k is the least number of groups of at most b that hold n items.
IsCeil(k, n, b) == k * b >= n /\ (k - 1) * b < n

\* C18: _create_batches returns ceil(N/B) batches, batch k (from 0) is
\* terms[k*B : (k+1)*B], every batch has 1 to B terms and the batches
\* concatenated in order are the original list.
C18_BatchesAreSlices ==
    fn.pc \in {"batched", "rounded"} =>
        LET N == Len(fn.term_infos)
            B == fn.batch_size
        IN  /\ IsCeil(Len(fn.batches), N, B)
            /\ fn.batch_count = Len(fn.batches)
            /\ \A k \in DOMAIN fn.batches :
                /\ Len(fn.batches[k]) >= 1
                /\ Len(fn.batches[k]) <= B
                /\ Len(fn.batches[k]) = Min(B, N - (k - 1) * B)
                /\ \A j \in DOMAIN fn.batches[k] :
                       fn.batches[k][j] = fn.term_infos[(k - 1) * B + j]
            /\ Concat(fn.batches) = fn.term_infos

\* C18 witness: 12 terms split by 5 gave three batches, the last of 2 terms.
C18_Witness ==
    /\ fn.pc = "batched"
    /\ Len(fn.term_infos) = 12
    /\ fn.batch_size = 5
    /\ Len(fn.batches) = 3
    /\ Len(fn.batches[3]) = 2

\* C19: _create_rounds groups M batches into ceil(M/C) rounds of at most C
\* batches; every batch is in exactly one round and the batch order is kept
\* within and across rounds.
C19_RoundsGroupBatches ==
    fn.pc = "rounded" =>
        LET M == Len(fn.batches)
            C == fn.concurrent_batches
        IN  /\ IsCeil(Len(fn.rounds), M, C)
            /\ fn.round_count = Len(fn.rounds)
            /\ \A r \in DOMAIN fn.rounds :
                   Len(fn.rounds[r]) >= 1 /\ Len(fn.rounds[r]) <= C
            /\ Concat(fn.rounds) = fn.batches

\* C19 witness: three batches grouped by 2 gave a round of two batches and
\* a round of one.
C19_Witness ==
    /\ fn.pc = "rounded"
    /\ Len(fn.batches) = 3
    /\ fn.concurrent_batches = 2
    /\ Len(fn.rounds) = 2
    /\ Len(fn.rounds[1]) = 2
    /\ Len(fn.rounds[2]) = 1

(***************************************************************************)
(* Properties of the batch scheduler (SpecBatch)                            *)
(***************************************************************************)
SchedActive == sched.pc \in {"round", "raised", "done"}

\* Input position of a term of the scheduler call.
InputPosition(term) == CHOOSE p \in DOMAIN sched.term_infos : sched.term_infos[p] = term

\* C4: the list returned by enhance_terms_batch is in original input order,
\* whatever the order in which the batches of a round completed.
C4_OutputInInputOrder ==
    (SchedActive /\ sched.pc = "done") =>
        \A i, j \in DOMAIN sched.enhanced_terms :
            i < j => InputPosition(sched.enhanced_terms[i].original_term)
                       < InputPosition(sched.enhanced_terms[j].original_term)

\* C4 witness: a call returned three terms although batch 3 finished before
\* batch 1.
C4_Witness ==
    /\ SchedActive
    /\ sched.pc = "done"
    /\ Len(sched.enhanced_terms) = 3
    /\ \E i, j \in DOMAIN sched.finished :
        i < j /\ sched.finished[i] = 3 /\ sched.finished[j] = 1

InFlight == {i \in DOMAIN sched.tasks : sched.tasks[i].state = "running"}

\* The round a batch (numbered over the whole call) belongs to.
RoundOf(b) ==
    CHOOSE r \in DOMAIN sched.rounds :
        BatchesBefore(sched.rounds, r) < b /\ b <= BatchesBefore(sched.rounds, r) + Len(sched.rounds[r])

\* C6: at most concurrent_batches batches are in flight, and no batch of a
\* later round is started before every batch of the earlier rounds finished.
C6_BoundedRounds ==
    SchedActive =>
        /\ Cardinality(InFlight) <= sched.concurrent_batches
        /\ \A b \in sched.started :
            \A r \in 1..(RoundOf(b) - 1) :
                \A k \in 1..Len(sched.rounds[r]) :
                    (BatchesBefore(sched.rounds, r) + k) \in Range(sched.finished)

\* C6 witness: the second round is running after a first round that had
\* concurrent_batches >= 2 batches in flight.
C6_Witness ==
    /\ SchedActive
    /\ sched.pc = "round"
    /\ sched.round_idx = 2
    /\ sched.concurrent_batches >= 2
    /\ Len(sched.rounds[1]) = sched.concurrent_batches
    /\ InFlight # {}

\* C17: the fallback_count of a call is the number of its batches whose
\* accepted tier is not tier 1; a batch accepted from tier 1 and an exhausted
\* batch count 0.
C17_FallbackCount ==
    (SchedActive /\ sched.pc = "done") => sched.fallback_count = sched.fell_back

ConfiguredTiers(cfg) ==
    1 + (IF cfg.fallback THEN 1 ELSE 0) + (IF cfg.simple THEN 1 ELSE 0)
      + (IF cfg.final THEN 1 ELSE 0)

\* Every configured tier was tried for the batch and none was accepted.
ChainExhausted(task, cfg) ==
    /\ task.state \in {"done", "raised"}
    /\ task.accepted = 0
    /\ task.tried = ConfiguredTiers(cfg)

\* C7: a batch whose chain is exhausted contributes an empty result and the
\* scheduler call goes on normally.
C7_ExhaustionIsolated ==
    SchedActive =>
        \A i \in DOMAIN sched.tasks :
            ChainExhausted(sched.tasks[i], sched.cfg) =>
                /\ sched.tasks[i].state = "done"
                /\ sched.tasks[i].terms = <<>>
                /\ sched.pc # "raised"

\* The call returned with every batch run once, in ceil(M/C) rounds.
EveryBatchRunOnce ==
    /\ Len(sched.finished) = Len(sched.batches)
    /\ Range(sched.finished) = 1..Len(sched.batches)
    /\ sched.round_idx = Len(sched.rounds) + 1
    /\ IsCeil(Len(sched.rounds), Len(sched.batches), sched.concurrent_batches)

\* No batch of the running round has had more provider calls than there
\* are configured tiers.
AtMostOneCallPerTier ==
    SchedActive =>
        \A i \in DOMAIN sched.tasks : sched.tasks[i].tried <= ConfiguredTiers(sched.cfg)

\* The call can still complete: it was not ended by an exception, and while
\* a round runs every task of it is running (its batch can come back) or
\* done (gather can return once all are).  Every such step finishes a batch
\* or a round, and there are finitely many of both.
CanComplete ==
    /\ sched.pc # "raised"
    /\ sched.pc = "round" =>
          /\ sched.round_idx \in 1..Len(sched.rounds)
          /\ DOMAIN sched.tasks = DOMAIN sched.rounds[sched.round_idx]
          /\ \A i \in DOMAIN sched.tasks : sched.tasks[i].state \in {"running", "done"}
          /\ Len(sched.completion) =
                Cardinality({i \in DOMAIN sched.tasks : sched.tasks[i].state = "done"})

\* C30: with provider calls that return, every call of enhance_terms_batch
\* completes; when it does, every batch was run exactly once, in ceil(M/C)
\* rounds, with at most one provider call per configured tier for a batch.
C30_CallCompletes ==
    /\ CanComplete
    /\ sched.pc = "done" => EveryBatchRunOnce
    /\ AtMostOneCallPerTier

(***************************************************************************)
(* Properties of the cached enhancement service (SpecCache)                 *)
(***************************************************************************)
CallReturned == csvc.pc = "returned" /\ ~csvc.last.raised

RequestPosition(term) ==
    CHOOSE p \in DOMAIN csvc.last.term_infos : csvc.last.term_infos[p] = term

\* C5: with use_cache the merged list of enhance_terms_with_cache is in
\* original input order, whether a term was a cache hit or newly produced.
C5_MergedInInputOrder ==
    (CallReturned /\ csvc.last.use_cache) =>
        \A i, j \in DOMAIN csvc.last.all_terms :
            i < j => RequestPosition(csvc.last.all_terms[i].original_term)
                       < RequestPosition(csvc.last.all_terms[j].original_term)

PlainTranslationSources == {SourceName(3), SourceName(4)}

EvidenceSources == {SourceName(1), SourceName(2)}

\* C8: the cache never holds an entry produced by a plain-translation tier.
C8_NoPlainTranslationCached ==
    csvc.pc \in {"ready", "returned"} =>
        \A key \in DOMAIN csvc.redis :
            csvc.redis[key].data.source \notin PlainTranslationSources

\* C9: a term whose evidence-tier entry is in the cache and not expired is
\* served from the cache: it is a hit, it is not sent to the scheduler, and
\* the returned EnhancedTerm equals the one that was written.
C9_ServedFromCache ==
    (CallReturned /\ csvc.last.use_cache /\ csvc.last.fault = NoFault) =>
        \A i \in DOMAIN csvc.last.term_infos :
            (/\ csvc.last.looked_up[i].ok
             /\ csvc.last.looked_up[i].value.source \in EvidenceSources) =>
                /\ csvc.last.term_infos[i] \notin Range(csvc.last.terms_to_process)
                /\ csvc.last.cache_hits >= 1
                /\ \E k \in DOMAIN csvc.last.all_terms :
                       csvc.last.all_terms[k] = from_dict(csvc.last.looked_up[i].value)

\* The terms served from the cache and the terms handed to the scheduler.
Hits == {csvc.last.cached_terms[i].original_term : i \in DOMAIN csvc.last.cached_terms}

Misses == Range(csvc.last.terms_to_process)

\* C11: with use_cache every input term is either a hit or a miss and never
\* both, cache_hits is the number of hits, and only misses are processed:
\* every term a provider produced is a miss.
C11_HitsAndMissesPartition ==
    (CallReturned /\ csvc.last.use_cache) =>
        /\ Hits \cap Misses = {}
        /\ Hits \cup Misses = Range(csvc.last.term_infos)
        /\ Len(csvc.last.cached_terms) + Len(csvc.last.terms_to_process)
              = Len(csvc.last.term_infos)
        /\ csvc.last.cache_hits = Cardinality(Hits)
        /\ \A i \in DOMAIN csvc.last.enhanced_terms :
               csvc.last.enhanced_terms[i].original_term \in Misses

\* C11 witness: a call served one term from the cache and had another
\* produced by a provider.
C11_Witness ==
    /\ CallReturned
    /\ csvc.last.use_cache
    /\ csvc.last.cache_hits = 1
    /\ Len(csvc.last.term_infos) = 2
    /\ csvc.last.enhanced_terms # <<>>

\* A call during which the store failed for one of the requested terms.
StoreFailed ==
    /\ csvc.pc = "returned"
    /\ csvc.last.use_cache
    /\ csvc.last.fault # NoFault
    /\ csvc.last.fault.term \in Range(csvc.last.term_infos)

\* The lookup of the same request on the same store with no failure.
FaultFreeLookup ==
    cache_lookup(csvc.svc, csvc.last.redis_before, csvc.last.term_infos, CacheLanguages,
                 csvc.now, TRUE, NoFault)

\* C12: a store failure on the lookup or the write-back of a term does not
\* fail the call; a term whose lookup failed is processed as a miss, and
\* every other term is a hit or a miss as it is without the failure.
C12_StoreFailureIsMiss ==
    StoreFailed =>
        /\ ~csvc.last.redis_raised
        /\ csvc.last.fault.kind \in {"get_error", "decode_error"} =>
               csvc.last.fault.term \in Misses
        /\ \A t \in Range(csvc.last.term_infos) \ {csvc.last.fault.term} :
               t \in Misses <=> t \in Range(FaultFreeLookup.terms_to_process)

\* The batches of the last call for which no tier was accepted.
ExhaustedBatches == {b \in DOMAIN csvc.last.accepted : csvc.last.accepted[b] = 0}

\* The route answered a request of which some batch exhausted its chain.
AnsweredWithExhaustedBatch ==
    /\ csvc.pc = "returned"
    /\ csvc.svc = "sync"
    /\ ~csvc.last.redis_raised
    /\ ExhaustedBatches # {}

\* C13: when the chain is exhausted for a batch the response has an entry for
\* that batch in its errors list, and the request succeeds with the results
\* of the other batches.
C13_ExhaustionInErrorsList ==
    AnsweredWithExhaustedBatch =>
        /\ csvc.response.status = 200
        /\ "errors" \in DOMAIN csvc.response.body
        /\ Len(csvc.response.body.errors) >= Cardinality(ExhaustedBatches)
        /\ csvc.response.body.enhanced_terms = csvc.last.all_terms

\* The request of the last call has no term or names an unsupported language.
InvalidInput(call) ==
    \/ call.term_infos = <<>>
    \/ \E i \in DOMAIN call.target_languages : ~is_valid(call.target_languages[i])

\* The last call gave the caller no result at all: turned down, or ended
\* by an exception.
WholeRequestRejected == csvc.last.rejected \/ csvc.last.raised

\* C21: a request with no term or with an unsupported language is turned
\* down before any provider is called and with the cache unchanged, and
\* nothing else makes the whole request fail.
C21_OnlyInvalidInputRejects ==
    csvc.pc = "returned" =>
        /\ InvalidInput(csvc.last) =>
                /\ csvc.last.rejected
                /\ csvc.last.accepted = <<>>
                /\ csvc.redis = csvc.last.redis_before
        /\ WholeRequestRejected => InvalidInput(csvc.last)

\* C28: a call with use_cache = false reads and writes no cache entry, has
\* cache_hits = 0 and passes every input term to the scheduler.
C28_NoCacheUseWhenOff ==
    (csvc.pc = "returned" /\ ~csvc.last.rejected /\ ~csvc.last.use_cache) =>
        /\ csvc.redis = csvc.last.redis_before
        /\ csvc.last.looked_up = <<>>
        /\ csvc.last.cache_hits = 0
        /\ csvc.last.cached_terms = <<>>
        /\ csvc.last.terms_to_process = csvc.last.term_infos

\* C28 witness: a call with use_cache = false returned new terms while the
\* store held a live entry of one of its terms.
C28_Witness ==
    /\ csvc.pc = "returned"
    /\ ~csvc.last.rejected
    /\ ~csvc.last.use_cache
    /\ ~csvc.last.raised
    /\ csvc.last.enhanced_terms # <<>>
    /\ \E i \in DOMAIN csvc.last.term_infos :
           RedisGet(csvc.redis,
                    cache_key(csvc.svc, csvc.last.term_infos[i], CacheLanguages),
                    csvc.now).ok

\* C29: in every response of the endpoint enhanced_terms + failed_terms =
\* total_terms, 0 <= failed_terms <= total_terms and cache_hits <=
\* enhanced_terms.
C29_SummaryCounts ==
    (csvc.pc = "returned" /\ csvc.response.status = 200) =>
        LET summary == csvc.response.body.summary
        IN  /\ summary.enhanced_terms + summary.failed_terms = summary.total_terms
            /\ 0 <= summary.failed_terms
            /\ summary.failed_terms <= summary.total_terms
            /\ summary.cache_hits <= summary.enhanced_terms

(***************************************************************************)
(* Properties of the request checks (SpecRequest)                           *)
(***************************************************************************)
\* The request has a term and only supported languages.
WellFormedRequest ==
    /\ fn.terms # <<>>
    /\ \A i \in DOMAIN fn.target_languages : is_valid(fn.target_languages[i])

\* C22: a request is accepted exactly when batch_size is in 1..20 and
\* concurrent_batches is in 1..15; omitted fields take the defaults 5 and 3.
C22_AcceptedRanges ==
    (fn.pc = "checked" /\ WellFormedRequest) =>
        /\ fn.status = 0 <=> (fn.batch_size \in 1..20 /\ fn.concurrent_batches \in 1..15)
        /\ ~fn.given[1] => fn.batch_size = 5
        /\ ~fn.given[2] => fn.concurrent_batches = 3

(***************************************************************************)
(* Properties of EnhancedTerm (SpecTerm)                                    *)
(***************************************************************************)
\* C23: the translations of an EnhancedTerm obtained through create,
\* from_dict or add_translation have supported language codes only.
C23_TranslationKeysSupported ==
    fn.pc = "term" => DOMAIN fn.term.translations \subseteq SUPPORTED_LANGUAGES

(***************************************************************************)
(* Properties of term extraction (SpecExtract, SpecParallel)                *)
(***************************************************************************)
\* The list has one result per chunk and result i is of chunk i.
ResultPerChunk(results, chunks) ==
    /\ Len(results) = Len(chunks)
    /\ \A i \in DOMAIN results : i \in DOMAIN chunks /\ results[i].chunk = chunks[i]

\* C26: the list the cached extraction returns has one result per input
\* chunk, and the i-th result is the result of the i-th chunk.
C26_MergeKeepsChunks ==
    (fn.pc = "returned" /\ fn.use_cache) => ResultPerChunk(fn.results, fn.chunks)

\* C27: a parallel extraction returns one result per input chunk, in the
\* order of the input chunks, whatever the interleaving of the workers.
C27_ParallelKeepsOrder ==
    (fn.pc = "done" /\ fn.parallel) => ResultPerChunk(fn.results, fn.chunks)

(***************************************************************************)
(* Properties of the key derivation (SpecKey)                               *)
(***************************************************************************)
\* The two term texts differ at most in surrounding white space and case.
SameTermText(a, b) == lower(strip(a)) = lower(strip(b))

\* The two language lists differ at most in order and in repeated codes.
SameLanguageSet(ls, ms) == Range(ls) = Range(ms)

\* C20: two lookups whose terms differ only in surrounding white space or
\* letter case and whose language lists differ only in order or in repeated
\* codes get the same key.
C20_KeyOfTextAndLanguageSet ==
    (/\ fn.pc = "keyed"
     /\ SameTermText(fn.term_a, fn.term_b)
     /\ SameLanguageSet(fn.langs_a, fn.langs_b)) => fn.key_a = fn.key_b

(***************************************************************************)
(* Properties of MemoryCacheAdapter (SpecMem)                               *)
(***************************************************************************)
MemActive == mem.pc = "ready"

\* C10: after set(k, v, ttl) every get(k) not later than the expiry instant,
\* with no set, delete or clear of k in between, returns v; a get(k) after
\* the expiry instant is a miss and leaves the key out of the store.
C10_SetThenGet ==
    (MemActive /\ mem.last.op = "get" /\ mem.written[mem.last.key] # NoEntry) =>
        IF mem.now <= mem.written[mem.last.key].expires_at
        THEN mem.last.value = mem.written[mem.last.key].value
        ELSE mem.last.value = None /\ mem.last.key \notin DOMAIN mem.cache

\* C10 witness: a get after the expiry instant of a key that was set
\* returned a miss and the key is not stored.
C10_Witness ==
    /\ MemActive
    /\ mem.last.op = "get"
    /\ mem.written[mem.last.key] # NoEntry
    /\ mem.now > mem.written[mem.last.key].expires_at
    /\ mem.last.value = None
    /\ mem.last.key \notin DOMAIN mem.cache

====
